---- MODULE Spec2Model ----
(***************************************************************************)
(* A model of the deet debugger core (elfgond/athelas): the command loop   *)
(* of src/debugger.rs and the inferior controller of src/inferior.rs.      *)
(*                                                                         *)
(* The traced child is a small machine with one-byte instructions, so      *)
(* that a breakpoint patches exactly one instruction and the effect of     *)
(* resuming one byte past a trap can be followed.  The child's memory is   *)
(* kept as aligned 8-byte words, each word a function from the byte index  *)
(* 0..7 (little-endian: index i is bits 8i..8i+7) to a byte 0..255.        *)
(***************************************************************************)
EXTENDS Integers, Sequences, FiniteSets, TLC

(***************************************************************************)
(* Bounds of the model.                                                    *)
(***************************************************************************)
\* how many times the target's loop instruction jumps back
LoopMax == 2
\* how many child processes one session may spawn
MaxProcs == 2
\* how many Break commands one session accepts
MaxBreaks == 2
\* how many sample words the memory-patch specification draws from
MaxPattern == 4
\* how many frames deep the call chains of the unwind specification go
MaxFrames == 3

(***************************************************************************)
(* Program constants.                                                      *)
(***************************************************************************)
\* size_of::<usize>() on the 64-bit target
WordSize == 8
\* the trap instruction written by set_breakpoint
TrapByte == 204

NoneVal == "None"
\* Debugger.inferior = None (pids start at 1)
NoInferior == 0

Bytes == 0..255
WordIdx == 0..(WordSize - 1)

(***************************************************************************)
(* Bit arithmetic on bytes, as used by write_byte.                         *)
(***************************************************************************)
RECURSIVE BitOr(_, _)
BitOr(x, y) ==
    IF x = 0 THEN y
    ELSE IF y = 0 THEN x
    ELSE (IF (x % 2 = 1) \/ (y % 2 = 1) THEN 1 ELSE 0) + 2 * BitOr(x \div 2, y \div 2)

RECURSIVE BitAnd(_, _)
BitAnd(x, y) ==
    IF x = 0 \/ y = 0 THEN 0
    ELSE (IF (x % 2 = 1) /\ (y % 2 = 1) THEN 1 ELSE 0) + 2 * BitAnd(x \div 2, y \div 2)

\* word >> (8 * byte_offset), truncated to its low byte by "& 0xff"
ShiftRightLowByte(word, byte_offset) == BitAnd(word[byte_offset], 255)

\* word & !(0xff << (8 * byte_offset))
MaskOut(word, byte_offset) ==
    [i \in WordIdx |-> IF i = byte_offset THEN BitAnd(word[i], 0) ELSE BitAnd(word[i], 255)]

\* (val as u64) << (8 * byte_offset)
ShiftLeftByte(val, byte_offset) ==
    [i \in WordIdx |-> IF i = byte_offset THEN val ELSE 0]

WordOr(w1, w2) == [i \in WordIdx |-> BitOr(w1[i], w2[i])]

\* addr & (-(size_of::<usize>() as isize) as usize)
align_addr_to_word(addr) == addr - (addr % WordSize)

(***************************************************************************)
(* ptrace::read / ptrace::write on a memory given as a function from       *)
(* aligned addresses to words; an address outside it is not mapped and     *)
(* the call fails.  A process that is not a stopped tracee has no memory   *)
(* to reach (mem is the empty function).                                   *)
(***************************************************************************)
Mapped(mem, aligned_addr) == aligned_addr \in DOMAIN mem

ptrace_read(mem, aligned_addr) ==
    IF Mapped(mem, aligned_addr)
    THEN [ok |-> TRUE, word |-> mem[aligned_addr]]
    ELSE [ok |-> FALSE, word |-> NoneVal]

ptrace_write(mem, aligned_addr, word) ==
    IF Mapped(mem, aligned_addr)
    THEN [ok |-> TRUE, mem |-> [mem EXCEPT ![aligned_addr] = word]]
    ELSE [ok |-> FALSE, mem |-> mem]

\* write_byte with the shift left out of orig_byte: it returns the word's low byte
write_byte_unshifted(mem, addr, val) ==
    LET aligned_addr == align_addr_to_word(addr)
        byte_offset == addr - aligned_addr
        rd == ptrace_read(mem, aligned_addr)
    IN  IF ~rd.ok THEN [ok |-> FALSE, byte |-> NoneVal, mem |-> mem]
        ELSE [ok |-> TRUE, byte |-> ShiftRightLowByte(rd.word, 0),
              mem |-> [mem EXCEPT ![aligned_addr] =
                          WordOr(MaskOut(rd.word, byte_offset),
                                 ShiftLeftByte(val, byte_offset))]]

\* write_byte that ORs the new byte onto the old one without masking it out
write_byte_unmasked(mem, addr, val) ==
    LET aligned_addr == align_addr_to_word(addr)
        byte_offset == addr - aligned_addr
        rd == ptrace_read(mem, aligned_addr)
    IN  IF ~rd.ok THEN [ok |-> FALSE, byte |-> NoneVal, mem |-> mem]
        ELSE [ok |-> TRUE, byte |-> ShiftRightLowByte(rd.word, byte_offset),
              mem |-> [mem EXCEPT ![aligned_addr] =
                          WordOr(rd.word, ShiftLeftByte(val, byte_offset))]]

(***************************************************************************)
(* Inferior::write_byte: the result is [ok, byte, mem]; on failure the     *)
(* memory is unchanged and there is no byte.                               *)
(***************************************************************************)
write_byte(mem, addr, val) ==
    LET aligned_addr == align_addr_to_word(addr)
        byte_offset == addr - aligned_addr
        rd == ptrace_read(mem, aligned_addr)
    IN  IF ~rd.ok THEN [ok |-> FALSE, byte |-> NoneVal, mem |-> mem]
        ELSE LET word == rd.word
                 orig_byte == ShiftRightLowByte(word, byte_offset)
                 masked_word == MaskOut(word, byte_offset)
                 updated == WordOr(masked_word, ShiftLeftByte(val, byte_offset))
                 wr == ptrace_write(mem, aligned_addr, updated)
             IN  IF ~wr.ok THEN [ok |-> FALSE, byte |-> NoneVal, mem |-> mem]
                 ELSE [ok |-> TRUE, byte |-> orig_byte, mem |-> wr.mem]

\* Inferior::set_breakpoint
set_breakpoint(mem, addr) == write_byte(mem, addr, TrapByte)


(***************************************************************************)
(* Status (src/inferior.rs, enum Status) and the results of the            *)
(* controller's operations.  One record shape serves all of them:          *)
(* kind is "Stopped", "Exited", "Signaled" (the three Status values),      *)
(* "Err" (the Result's Err), "Panic" (the operation panicked) or "NoCall". *)
(***************************************************************************)
Stopped(signal, rip) == [kind |-> "Stopped", sig |-> signal, val |-> rip]
Exited(exit_code) == [kind |-> "Exited", sig |-> NoneVal, val |-> exit_code]
Signaled(signal) == [kind |-> "Signaled", sig |-> signal, val |-> 0]
Err == [kind |-> "Err", sig |-> NoneVal, val |-> 0]
Panic == [kind |-> "Panic", sig |-> NoneVal, val |-> 0]
NoCall == [kind |-> "NoCall", sig |-> NoneVal, val |-> 0]

\* nix's WaitStatus, as waitpid hands it to Inferior::wait
WaitStatus(k, signal, code) == [kind |-> k, sig |-> signal, code |-> code]

WaitKinds == {"Exited", "Signaled", "Stopped", "PtraceEvent", "PtraceSyscall",
              "Continued", "StillAlive"}

(***************************************************************************)
(* Inferior::wait: the decoding of waitpid's answer.  ws.kind = "Err" is   *)
(* waitpid's own failure (the `?`); regs_rip is what getregs reads for a   *)
(* stopped child.                                                          *)
(***************************************************************************)
wait(ws, regs_rip) ==
    CASE ws.kind = "Err" -> Err
      [] ws.kind = "Exited" -> Exited(ws.code)
      [] ws.kind = "Signaled" -> Signaled(ws.sig)
      [] ws.kind = "Stopped" -> Stopped(ws.sig, regs_rip)
      [] ws.kind = "PtraceEvent" -> Signaled(ws.sig)
      [] OTHER -> Panic

(***************************************************************************)
(* The target program.  The instruction set has one-byte instructions:     *)
(* nop, loop (jump back to loop_head while the counter is below LoopMax),  *)
(* exit (exit(0)), hlt (a privileged instruction: the child faults) and    *)
(* the trap byte.  Two targets: "loop" runs its loop and exits, "fault"    *)
(* is the same program with a faulting instruction in the loop body.       *)
(***************************************************************************)
Op == [nop |-> 144, loop |-> 226, exit |-> 195, hlt |-> 244, pad |-> 0]

Layout == [entry |-> 0, loop_head |-> 6, size |-> 16]

LoopCode ==
    << Op.nop, Op.nop, Op.nop, Op.nop, Op.nop, Op.nop, Op.nop, Op.nop,
       Op.nop, Op.nop, Op.loop, Op.exit, Op.pad, Op.pad, Op.pad, Op.pad >>

FaultCode == [LoopCode EXCEPT ![9] = Op.hlt]

Targets == {"loop", "fault"}

Code(t) == IF t = "loop" THEN LoopCode ELSE FaultCode

CodeBase == {a \in 0..(Layout.size - 1) : a % WordSize = 0}

\* the memory image of a freshly exec'ed child
Image(t) == [a \in CodeBase |-> [i \in WordIdx |-> Code(t)[a + i + 1]]]

NoMem == [a \in {} |-> 0]

ByteAt(mem, addr) == mem[align_addr_to_word(addr)][addr % WordSize]

(***************************************************************************)
(* A child process: st is "stopped" (alive, in a ptrace stop) or "dead"    *)
(* (terminated and reaped); trap_at is the address of the trap instruction *)
(* whose execution caused the present stop, or -1.                         *)
(***************************************************************************)
DeadProc == [st |-> "dead", mem |-> NoMem, rip |-> 0, cnt |-> 0, trap_at |-> -1]

FreshProc(t) ==
    [st |-> "stopped", mem |-> Image(t), rip |-> Layout.entry, cnt |-> 0, trap_at |-> -1]

(***************************************************************************)
(* What the kernel and the CPU do between ptrace::cont and the next        *)
(* waitpid: the child runs from rip until it stops or exits.  A signal     *)
(* stop leaves rip at the faulting instruction; the trap instruction       *)
(* leaves rip one byte past itself.  The result is the child afterwards    *)
(* and the WaitStatus waitpid reports.                                     *)
(***************************************************************************)
RECURSIVE Exec(_, _, _)
Exec(mem, rip, cnt) ==
    LET stop(signal, at, trap) ==
            [proc |-> [st |-> "stopped", mem |-> mem, rip |-> at, cnt |-> cnt,
                       trap_at |-> trap],
             ws |-> WaitStatus("Stopped", signal, 0)]
    IN  IF ~Mapped(mem, align_addr_to_word(rip)) THEN stop("SIGSEGV", rip, -1)
        ELSE LET b == ByteAt(mem, rip)
             IN  CASE b = TrapByte -> stop("SIGTRAP", rip + 1, rip)
                   [] b = Op.nop -> Exec(mem, rip + 1, cnt)
                   [] b = Op.loop ->
                        IF cnt < LoopMax THEN Exec(mem, Layout.loop_head, cnt + 1)
                        ELSE Exec(mem, rip + 1, cnt)
                   [] b = Op.exit ->
                        [proc |-> DeadProc, ws |-> WaitStatus("Exited", NoneVal, 0)]
                   [] b = Op.hlt -> stop("SIGSEGV", rip, -1)
                   [] OTHER -> stop("SIGILL", rip, -1)

\* the instruction the child executes first when resumed
FirstExec(proc) ==
    IF Mapped(proc.mem, align_addr_to_word(proc.rip))
    THEN [addr |-> proc.rip, op |-> ByteAt(proc.mem, proc.rip)]
    ELSE [addr |-> proc.rip, op |-> -1]

NoExec == [addr |-> -1, op |-> -1]

(***************************************************************************)
(* Inferior::cont: ptrace::cont fails (ESRCH) on a process that is not a   *)
(* stopped tracee; otherwise the child runs and wait decodes the event.    *)
(* ops is the sequence of ptrace requests the call made.                   *)
(***************************************************************************)
\* self.wait(None) after a successful ptrace::cont; e is what the child did
cont_wait(proc, e) ==
    [res |-> wait(e.ws, e.proc.rip), proc |-> e.proc,
     first |-> FirstExec(proc), ops |-> << "cont" >>]

\* cont that takes ptrace::cont's failure on a dead child for its exit
cont_dead_as_exited(proc) ==
    IF proc.st # "stopped"
    THEN [res |-> Exited(0), proc |-> proc, first |-> NoExec, ops |-> << >>]
    ELSE cont_wait(proc, Exec(proc.mem, proc.rip, proc.cnt))

cont(proc) ==
    IF proc.st # "stopped"
    THEN [res |-> Err, proc |-> proc, first |-> NoExec, ops |-> << >>]
    ELSE cont_wait(proc, Exec(proc.mem, proc.rip, proc.cnt))

(***************************************************************************)
(* Inferior::kill: Child::kill sends SIGKILL and fails on a process that   *)
(* was already reaped; then wait reports the death.                        *)
(***************************************************************************)
\* kill with a signal the tracer intercepts: the child stops and stays alive
kill_intercepted(proc) ==
    IF proc.st = "stopped"
    THEN [res |-> wait(WaitStatus("Stopped", "SIGTERM", 0), proc.rip), proc |-> proc]
    ELSE [res |-> Err, proc |-> proc]

kill(proc) ==
    IF proc.st = "stopped"
    THEN [res |-> wait(WaitStatus("Signaled", "SIGKILL", 0), proc.rip), proc |-> DeadProc]
    ELSE [res |-> Err, proc |-> proc]


(***************************************************************************)
(* Debugger::parse_address, on a string given as a tuple of characters:    *)
(* an optional 0x/0X prefix, then usize::from_str_radix(_, 16), which      *)
(* takes an optional "+" sign and at least one hexadecimal digit.          *)
(***************************************************************************)
HexLower == << "0", "1", "2", "3", "4", "5", "6", "7", "8", "9",
               "a", "b", "c", "d", "e", "f" >>
HexUpper == << "0", "1", "2", "3", "4", "5", "6", "7", "8", "9",
               "A", "B", "C", "D", "E", "F" >>

IsHexDigit(c) == \E i \in 1..16 : HexLower[i] = c \/ HexUpper[i] = c

HexDigitVal(c) == (CHOOSE i \in 1..16 : HexLower[i] = c \/ HexUpper[i] = c) - 1

RECURSIVE HexValue(_, _)
HexValue(digits, acc) ==
    IF digits = << >> THEN acc
    ELSE HexValue(Tail(digits), acc * 16 + HexDigitVal(Head(digits)))

\* usize::from_str_radix(s, 16).ok(): -1 for None
from_str_radix(s) ==
    LET digits == IF s # << >> /\ Head(s) = "+" THEN Tail(s) ELSE s
    IN  IF digits = << >> THEN -1
        ELSE IF \A i \in 1..Len(digits) : IsHexDigit(digits[i])
             THEN HexValue(digits, 0)
             ELSE -1

parse_address(addr) ==
    LET has_prefix == Len(addr) >= 2 /\ addr[1] = "0" /\ addr[2] \in {"x", "X"}
        addr_without_0x == IF has_prefix THEN SubSeq(addr, 3, Len(addr)) ELSE addr
    IN  from_str_radix(addr_without_0x)

(***************************************************************************)
(* The symbol service (DwarfData) of the target: the function and the      *)
(* source line of a code address (NoneVal, -1 where there is none).  The   *)
(* loop body belongs to a function called from main; the last instruction *)
(* of the loop has a function but no line entry.                           *)
(***************************************************************************)
get_function_from_addr(addr) ==
    IF addr >= 0 /\ addr < Layout.loop_head THEN "main"
    ELSE IF addr >= Layout.loop_head /\ addr <= 10 THEN "work"
    ELSE IF addr = 11 THEN "main"
    ELSE NoneVal

get_line_from_addr(addr) ==
    IF get_function_from_addr(addr) = NoneVal \/ addr = 10 THEN -1
    ELSE 100 + addr

(***************************************************************************)
(* The child's stack at a stop: the frame-base register and the stack      *)
(* words, a function from aligned stack addresses to the value each holds. *)
(***************************************************************************)
StackBase == {32, 40, 48, 56}

StackSamples ==
    { \* called from main: the saved return address is in main
      [rbp |-> 32, mem |-> [a \in StackBase |-> IF a = 40 THEN 2 ELSE 48]],
      \* a frame chain that points back at itself
      [rbp |-> 32, mem |-> [a \in StackBase |-> IF a = 40 THEN 7 ELSE 32]],
      \* a return address outside the debug information
      [rbp |-> 48, mem |-> [a \in StackBase |-> IF a = 56 THEN 12 ELSE 32]],
      \* a frame-base register that points at unmapped memory
      [rbp |-> 128, mem |-> [a \in StackBase |-> 0]] }

\* ptrace::read of a stack word, as an address-sized value
ptrace_read_value(stack, addr) ==
    IF addr \in DOMAIN stack.mem
    THEN [ok |-> TRUE, val |-> stack.mem[addr]]
    ELSE [ok |-> FALSE, val |-> 0]

\* print_backtrace's loop with the two stack words of a frame taken for
\* each other
RECURSIVE unwind_loop_swapped(_, _, _, _, _, _)
unwind_loop_swapped(stack, instruction_ptr, current_stack_frame, frames, reads, seen) ==
    LET func_name == get_function_from_addr(instruction_ptr)
        line == get_line_from_addr(instruction_ptr)
        out(r, fs, n) == [res |-> r, frames |-> fs, reads |-> n]
    IN  IF func_name = NoneVal THEN out("Ok", frames, reads)
        ELSE IF line < 0 THEN out("Panic", frames, reads)
        ELSE LET printed == Append(frames, << func_name, line >>)
                 r1 == ptrace_read_value(stack, current_stack_frame)
                 r2 == ptrace_read_value(stack, current_stack_frame + 8)
             IN  IF func_name = "main" THEN out("Ok", printed, reads)
                 ELSE IF ~r1.ok THEN out("Err", printed, reads)
                 ELSE IF ~r2.ok THEN out("Err", printed, reads + 1)
                 ELSE IF << r1.val, r2.val >> \in seen THEN out("Hang", printed, reads + 2)
                 ELSE unwind_loop_swapped(stack, r1.val, r2.val, printed, reads + 2,
                                          seen \cup {<< r1.val, r2.val >>})

(***************************************************************************)
(* Inferior::print_backtrace.  The loop is followed until it ends; a       *)
(* (instruction_ptr, current_stack_frame) pair met a second time means the *)
(* loop never ends ("Hang").  res is "Ok", "Err" (a ptrace call failed),   *)
(* "Panic" (the unwrap of a missing line) or "Hang"; frames are the lines  *)
(* printed, reads counts the stack words read.                             *)
(***************************************************************************)
RECURSIVE unwind_loop(_, _, _, _, _, _)
unwind_loop(stack, instruction_ptr, current_stack_frame, frames, reads, seen) ==
    LET func_name == get_function_from_addr(instruction_ptr)
        line == get_line_from_addr(instruction_ptr)
        out(r, fs, n) == [res |-> r, frames |-> fs, reads |-> n]
    IN  IF func_name = NoneVal THEN out("Ok", frames, reads)
        ELSE IF line < 0 THEN out("Panic", frames, reads)
        ELSE LET printed == Append(frames, << func_name, line >>)
                 r1 == ptrace_read_value(stack, current_stack_frame + 8)
                 r2 == ptrace_read_value(stack, current_stack_frame)
             IN  IF func_name = "main" THEN out("Ok", printed, reads)
                 ELSE IF ~r1.ok THEN out("Err", printed, reads)
                 ELSE IF ~r2.ok THEN out("Err", printed, reads + 1)
                 ELSE IF << r1.val, r2.val >> \in seen THEN out("Hang", printed, reads + 2)
                 ELSE unwind_loop(stack, r1.val, r2.val, printed, reads + 2,
                                  seen \cup {<< r1.val, r2.val >>})

print_backtrace(proc, stack) ==
    IF proc.st # "stopped" THEN [res |-> "Err", frames |-> << >>, reads |-> 0]
    ELSE unwind_loop(stack, proc.rip, stack.rbp, << >>, 0, {<< proc.rip, stack.rbp >>})


(***************************************************************************)
(* State.                                                                  *)
(*   target       the program the session debugs (Debugger.target)        *)
(*   inferior     Debugger.inferior: NoInferior, or the Inferior's pid     *)
(*   breakpoints  Debugger.breakpoints, a Vec                              *)
(*   procs        every child spawned so far; the pid is the index         *)
(*   session      "running", "quit" (run returned), "panicked" or "hung"   *)
(*   panic_at     the source line of the panic, 0 if none                  *)
(*   shadow       per address, the byte the latest set_breakpoint on the   *)
(*                newest inferior returned                                 *)
(*   terminal     the pids whose Inferior has reported Exited or Signaled  *)
(*   last         what the last command did (see NoLast)                   *)
(*   patch        the state of the memory-patch specification              *)
(*   probe        the state of the wait and unwind specifications          *)
(***************************************************************************)
VARIABLES target, inferior, breakpoints, procs, session, panic_at, shadow,
          terminal, last, patch, probe

vars == << target, inferior, breakpoints, procs, session, panic_at, shadow,
           terminal, last, patch, probe >>

NoShadow == [a \in {} |-> 0]

(***************************************************************************)
(* The record of the last command: the command, the result of each         *)
(* controller call it made ("NoCall" when it made none), the ptrace        *)
(* requests made on the inferior, the instruction the child executed       *)
(* first when resumed, the breakpoint address the inferior was stopped at  *)
(* before the command (-1 if none), the result of the latest cont before   *)
(* this command on the held inferior, whether it had already reported a    *)
(* terminal status, and how many children were alive when the command      *)
(* spawned one (-1 if it spawned none).                                    *)
(***************************************************************************)
NoLast ==
    [cmd |-> NoneVal, new |-> "NoCall", first_status |-> NoCall, cont |-> NoCall,
     kill |-> NoCall, setbp |-> "NoCall", bt |-> "NoCall", ops |-> << >>,
     first |-> NoExec, pre_bp |-> -1, prev_cont |-> NoCall, on_terminal |-> FALSE,
     live_at_spawn |-> -1]

Live(ps) == {p \in 1..Len(ps) : ps[p].st = "stopped"}

\* the address of the installed breakpoint the process is stopped at, or -1
StoppedAtBp(proc) ==
    IF proc.st = "stopped" /\ proc.trap_at >= 0 /\ proc.rip = proc.trap_at + 1
       /\ ByteAt(proc.mem, proc.trap_at) = TrapByte
    THEN proc.trap_at
    ELSE -1

(***************************************************************************)
(* Inferior::new.  spawn_ok: whether Command::spawn created the child;     *)
(* first_event: what the child's first wait event is, "trap" (the stop at  *)
(* exec) or "killed" (the child died of a signal before it).  outcome is   *)
(* "Some", "None" or "Panic" (with the source line); created tells whether *)
(* a child process exists; status is what the first wait returned.         *)
(***************************************************************************)
FirstEvents == {"trap", "killed"}

\* the loop over breakpoints (lines 58-60); r is one set_breakpoint's result
RECURSIVE install(_, _, _), install_next(_, _, _, _)
install(mem, addrs, sh) ==
    IF addrs = << >> THEN [ok |-> TRUE, mem |-> mem, shadow |-> sh]
    ELSE install_next(mem, addrs, sh, set_breakpoint(mem, Head(addrs)))

install_next(mem, addrs, sh, r) ==
    IF ~r.ok THEN [ok |-> FALSE, mem |-> mem, shadow |-> sh]
    ELSE install(r.mem, Tail(addrs), (Head(addrs) :> r.byte) @@ sh)

new_result(o, l, pr, sh, status) ==
    [outcome |-> o, line |-> l, created |-> TRUE, proc |-> pr, shadow |-> sh,
     status |-> status]

\* lines 58-63: ins is the outcome of the loop over breakpoints
new_installed(child, status, ins) ==
    IF ins.ok
    THEN new_result("Some", 0, [child EXCEPT !.mem = ins.mem], ins.shadow, status)
    ELSE new_result("Panic", 59, [child EXCEPT !.mem = ins.mem], ins.shadow, status)

\* lines 53-69: status is what inferior.wait(None) returned
new_waited(child, status, bps) ==
    CASE status.kind = "Err" -> new_result("None", 0, child, NoShadow, status)
      [] status.kind = "Panic" -> new_result("Panic", 100, child, NoShadow, status)
      [] status.kind = "Stopped" /\ status.sig = "SIGTRAP" ->
           new_installed(child, status, install(child.mem, bps, NoShadow))
      [] OTHER -> new_result("Some", 0, child, NoShadow, status)

Inferior_new(t, spawn_ok, first_event, bps) ==
    IF ~spawn_ok
    THEN [outcome |-> "Panic", line |-> 50, created |-> FALSE, proc |-> DeadProc,
          shadow |-> NoShadow, status |-> NoCall]
    ELSE IF first_event = "trap"
         THEN new_waited(FreshProc(t),
                         wait(WaitStatus("Stopped", "SIGTRAP", 0), Layout.entry), bps)
         ELSE new_waited(DeadProc, wait(WaitStatus("Signaled", "SIGKILL", 0), 0), bps)

(***************************************************************************)
(* Debugger::start_deet, from the session state s (a record of inferior,   *)
(* procs, session, panic_at, shadow, terminal) and the record l of the     *)
(* command so far; the result is the pair of both afterwards.              *)
(***************************************************************************)
IsTerminal(status) == status.kind \in {"Exited", "Signaled"}

panicked(s, line) == [s EXCEPT !.session = "panicked", !.panic_at = line]

\* lines 192-213: c is what inferior.cont() returned for the new child pid
start_deet_cont(s, l, pid, c) ==
    LET l2 == [l EXCEPT !.cont = c.res, !.first = c.first, !.ops = c.ops]
        s2 == [s EXCEPT !.procs[pid] = c.proc]
    IN  CASE c.res.kind = "Err" -> << panicked(s2, 212), l2 >>
          [] c.res.kind = "Panic" -> << panicked(s2, 100), l2 >>
          [] c.res.kind = "Stopped" -> << [s2 EXCEPT !.inferior = pid], l2 >>
          [] OTHER ->
               << [s2 EXCEPT !.inferior = NoInferior, !.shadow = NoShadow,
                             !.terminal = @ \cup {pid}], l2 >>

\* lines 191-216: n is what Inferior::new returned
start_deet_new(s, l, n) ==
    LET pid == Len(s.procs) + 1
        l1 == [l EXCEPT !.new = n.outcome, !.first_status = n.status,
                        !.live_at_spawn = Cardinality(Live(s.procs)),
                        !.on_terminal = IsTerminal(n.status)]
        s1 == IF n.created
              THEN [s EXCEPT !.procs = Append(s.procs, n.proc), !.shadow = n.shadow,
                             !.terminal = IF IsTerminal(n.status) THEN @ \cup {pid} ELSE @]
              ELSE s
    IN  CASE n.outcome = "Panic" -> << panicked(s1, n.line), l1 >>
          [] n.outcome = "None" -> << s1, l1 >>
          [] OTHER -> start_deet_cont(s1, l1, pid, cont(n.proc))

start_deet(t, bps, s, l, spawn_ok, first_event) ==
    start_deet_new(s, l, Inferior_new(t, spawn_ok, first_event, bps))

(***************************************************************************)
(* The session state as one record, and its assignment to the variables.   *)
(***************************************************************************)
Now ==
    [inferior |-> inferior, procs |-> procs, session |-> session,
     panic_at |-> panic_at, shadow |-> shadow, terminal |-> terminal]

Becomes(pair) ==
    /\ inferior' = pair[1].inferior
    /\ procs' = pair[1].procs
    /\ session' = pair[1].session
    /\ panic_at' = pair[1].panic_at
    /\ shadow' = pair[1].shadow
    /\ terminal' = pair[1].terminal
    /\ last' = pair[2]

BecomesWith(triple) ==
    /\ Becomes(triple)
    /\ breakpoints' = triple[3]

Held == inferior # NoInferior

Starting(cmd) ==
    [NoLast EXCEPT !.cmd = cmd,
                   !.pre_bp = IF Held THEN StoppedAtBp(procs[inferior]) ELSE -1,
                   !.prev_cont = IF ~Held THEN NoCall
                                 ELSE IF last.cont.kind # "NoCall" THEN last.cont
                                 ELSE last.prev_cont,
                   !.on_terminal = Held /\ inferior \in terminal]

(***************************************************************************)
(* DebuggerCommand::Run (src/debugger.rs 51-83).                           *)
(***************************************************************************)
\* lines 53-81: k is what inferior.kill() returned
\* Run giving up when the kill of the held inferior fails
run_killed_gives_up(t, bps, s, l, spawn_ok, first_event, k) ==
    IF k.res.kind = "Err" THEN << s, [l EXCEPT !.kill = k.res] >>
    ELSE start_deet(t, bps,
                    [s EXCEPT !.procs[s.inferior] = k.proc,
                              !.terminal = @ \cup {s.inferior},
                              !.inferior = NoInferior, !.shadow = NoShadow],
                    [l EXCEPT !.kill = k.res], spawn_ok, first_event)

run_killed(t, bps, s, l, spawn_ok, first_event, k) ==
    LET l1 == [l EXCEPT !.kill = k.res]
        s1 == [s EXCEPT !.procs[s.inferior] = k.proc,
                        !.terminal = IF IsTerminal(k.res) THEN @ \cup {s.inferior}
                                     ELSE @]
    IN  CASE k.res.kind = "Panic" -> << panicked(s1, 100), l1 >>
          [] k.res.kind = "Err" -> start_deet(t, bps, s1, l1, spawn_ok, first_event)
          [] OTHER ->
               start_deet(t, bps, [s1 EXCEPT !.inferior = NoInferior, !.shadow = NoShadow],
                          l1, spawn_ok, first_event)

run_handler(t, bps, s, l, spawn_ok, first_event) ==
    IF s.inferior = NoInferior THEN start_deet(t, bps, s, l, spawn_ok, first_event)
    ELSE run_killed(t, bps, s, l, spawn_ok, first_event, kill(s.procs[s.inferior]))

Run(spawn_ok, first_event) ==
    /\ session = "running"
    /\ Len(procs) < MaxProcs
    /\ Becomes(run_handler(target, breakpoints, Now, Starting("Run"), spawn_ok, first_event))
    /\ UNCHANGED << target, breakpoints, patch, probe >>

(***************************************************************************)
(* DebuggerCommand::Cont (src/debugger.rs 84-104).                         *)
(***************************************************************************)
\* lines 86-102: c is what inferior.cont() returned
cont_done(s, l, c) ==
    LET l1 == [l EXCEPT !.cont = c.res, !.first = c.first, !.ops = c.ops]
        s1 == [s EXCEPT !.procs[s.inferior] = c.proc,
                        !.terminal = IF IsTerminal(c.res) THEN @ \cup {s.inferior}
                                     ELSE @]
    IN  IF c.res.kind = "Panic" THEN << panicked(s1, 100), l1 >>
        ELSE << s1, l1 >>

\* Continue treating a missing inferior as fatal
cont_handler_fatal(s, l) ==
    IF s.inferior = NoInferior THEN << panicked(s, 85), l >>
    ELSE cont_done(s, l, cont(s.procs[s.inferior]))

cont_handler(s, l) ==
    IF s.inferior = NoInferior THEN << s, l >>
    ELSE cont_done(s, l, cont(s.procs[s.inferior]))

Cont ==
    /\ session = "running"
    /\ Becomes(cont_handler(Now, Starting("Cont")))
    /\ UNCHANGED << target, breakpoints, patch, probe >>

(***************************************************************************)
(* DebuggerCommand::Quit (src/debugger.rs 105-115).                        *)
(***************************************************************************)
\* lines 107-112: k is what inferior.kill() returned
quit_killed(s, l, k) ==
    LET l1 == [l EXCEPT !.kill = k.res]
        s1 == [s EXCEPT !.procs[s.inferior] = k.proc,
                        !.terminal = IF IsTerminal(k.res) THEN @ \cup {s.inferior}
                                     ELSE @]
    IN  IF k.res.kind = "Panic" THEN << panicked(s1, 100), l1 >>
        ELSE << [s1 EXCEPT !.session = "quit"], l1 >>

\* Quit returning without killing the inferior
quit_handler_without_kill(s, l) == << [s EXCEPT !.session = "quit"], l >>

quit_handler(s, l) ==
    IF s.inferior = NoInferior THEN << [s EXCEPT !.session = "quit"], l >>
    ELSE quit_killed(s, l, kill(s.procs[s.inferior]))

Quit ==
    /\ session = "running"
    /\ Becomes(quit_handler(Now, Starting("Quit")))
    /\ UNCHANGED << target, breakpoints, patch, probe >>

(***************************************************************************)
(* DebuggerCommand::Backtrace (src/debugger.rs 116-120); stack is the      *)
(* child's stack at this stop.                                             *)
(***************************************************************************)
\* line 118: b is what print_backtrace did
backtrace_done(s, l, b) ==
    LET l1 == [l EXCEPT !.bt = b.res]
    IN  CASE b.res = "Err" -> << panicked(s, 118), l1 >>
          [] b.res = "Panic" -> << panicked(s, 129), l1 >>
          [] b.res = "Hang" -> << [s EXCEPT !.session = "hung"], l1 >>
          [] OTHER -> << s, l1 >>

backtrace_handler(s, l, stack) ==
    IF s.inferior = NoInferior THEN << s, l >>
    ELSE backtrace_done(s, l, print_backtrace(s.procs[s.inferior], stack))

Backtrace(stack) ==
    /\ session = "running"
    /\ Becomes(backtrace_handler(Now, Starting("Backtrace"), stack))
    /\ UNCHANGED << target, breakpoints, patch, probe >>

(***************************************************************************)
(* DebuggerCommand::Break (src/debugger.rs 121-134); arg is the command's  *)
(* argument as a tuple of characters.  The result is the triple of the     *)
(* session state, the command record and the breakpoint vector.            *)
(***************************************************************************)
BreakArgs ==
    { << "*", "0" >>, << "*", "0", "x", "7" >>, << "*", "0", "X", "9" >>,
      << "*", "4", "0" >>, << "*", "z" >>, << "7" >>, << >> }

\* line 127: r is what inf.set_breakpoint(addr) returned
break_set(bps, s, l, addr, r) ==
    LET l1 == [l EXCEPT !.setbp = IF r.ok THEN "Ok" ELSE "Err"]
    IN  IF ~r.ok THEN << panicked(s, 127), l1, Append(bps, addr) >>
        ELSE << [s EXCEPT !.procs[s.inferior].mem = r.mem,
                          !.shadow = (addr :> r.byte) @@ @],
                l1, Append(bps, addr) >>

\* lines 122-128: addr is what parse_address returned
break_parsed(bps, s, l, addr) ==
    IF addr < 0 THEN << panicked(s, 122), l, bps >>
    ELSE IF s.inferior = NoInferior THEN << s, l, Append(bps, addr) >>
    ELSE break_set(bps, s, l, addr, set_breakpoint(s.procs[s.inferior].mem, addr))

break_handler(bps, s, l, arg) ==
    IF arg = << >> THEN << panicked(s, 122), l, bps >>
    ELSE break_parsed(bps, s, l, parse_address(Tail(arg)))

Break(arg) ==
    /\ session = "running"
    /\ Len(breakpoints) < MaxBreaks
    /\ BecomesWith(break_handler(breakpoints, Now, Starting("Break"), arg))
    /\ UNCHANGED << target, patch, probe >>

(***************************************************************************)
(* The session: Debugger::new, then the command loop of Debugger::run.     *)
(***************************************************************************)
NoPatch == [phase |-> "off"]

NoProbe == [phase |-> "off"]

Init ==
    /\ target \in Targets
    /\ inferior = NoInferior
    /\ breakpoints = << >>
    /\ procs = << >>
    /\ session = "running"
    /\ panic_at = 0
    /\ shadow = NoShadow
    /\ terminal = {}
    /\ last = NoLast
    /\ patch = NoPatch
    /\ probe = NoProbe

Next ==
    \/ \E spawn_ok \in BOOLEAN, first_event \in FirstEvents : Run(spawn_ok, first_event)
    \/ Cont
    \/ Quit
    \/ \E stack \in StackSamples : Backtrace(stack)
    \/ \E arg \in BreakArgs : Break(arg)

Spec == Init /\ [][Next]_vars


(***************************************************************************)
(* The memory-patch specification: set_breakpoint and clear_breakpoint,    *)
(* or one write_byte of a sample value, on a stopped inferior, over sample *)
(* memories and every address of the code region and of the unmapped word  *)
(* after it.                                                               *)
(*   patch.phase  "init", "set" (set_breakpoint was called), "cleared" or  *)
(*                "written" (write_byte was called with patch.val)         *)
(*   patch.mem    the inferior's memory, patch.mem0 its content at first   *)
(*   patch.addr   the address patched                                      *)
(*   patch.ok, patch.byte   what set_breakpoint returned (byte -1 on Err)  *)
(***************************************************************************)
PatchByte(k, i) ==
    CASE k = 0 -> TrapByte
      [] k = 1 -> 255
      [] k = 2 -> 0
      [] OTHER -> (37 * i + 91 * k + 13) % 256

PatchWord(k) == [i \in WordIdx |-> PatchByte(k, i)]

PatchMems == [CodeBase -> {PatchWord(k) : k \in 0..MaxPattern}]

PatchAddrs == 0..(Layout.size + WordSize - 1)

\* clear_breakpoint: restore the shadow byte at the address
clear_breakpoint(mem, addr, shadow_byte) == write_byte(mem, addr, shadow_byte)

PatchInit ==
    /\ target = "loop"
    /\ inferior = NoInferior
    /\ breakpoints = << >>
    /\ procs = << >>
    /\ session = "off"
    /\ panic_at = 0
    /\ shadow = NoShadow
    /\ terminal = {}
    /\ last = NoLast
    /\ probe = NoProbe
    /\ \E m \in PatchMems :
           patch = [phase |-> "init", mem |-> m, mem0 |-> m, addr |-> 0, ok |-> TRUE,
                    byte |-> -1, val |-> -1]

patch_set(pt, addr, r) ==
    [pt EXCEPT !.phase = "set", !.mem = r.mem, !.addr = addr, !.ok = r.ok,
               !.byte = IF r.ok THEN r.byte ELSE -1]

PatchSet(addr) ==
    /\ patch.phase = "init"
    /\ patch' = patch_set(patch, addr, set_breakpoint(patch.mem, addr))
    /\ UNCHANGED << target, inferior, breakpoints, procs, session, panic_at, shadow,
                    terminal, last, probe >>

patch_clear(pt, r) == [pt EXCEPT !.phase = "cleared", !.mem = r.mem, !.ok = r.ok]

PatchClear ==
    /\ patch.phase = "set"
    /\ patch.ok
    /\ patch' = patch_clear(patch, clear_breakpoint(patch.mem, patch.addr, patch.byte))
    /\ UNCHANGED << target, inferior, breakpoints, procs, session, panic_at, shadow,
                    terminal, last, probe >>

PatchVals == {0, 1, 128, TrapByte, 255}

patch_write(pt, addr, val, r) ==
    [pt EXCEPT !.phase = "written", !.mem = r.mem, !.addr = addr, !.val = val,
               !.ok = r.ok, !.byte = IF r.ok THEN r.byte ELSE -1]

PatchWrite(addr, val) ==
    /\ patch.phase = "init"
    /\ patch' = patch_write(patch, addr, val, write_byte(patch.mem, addr, val))
    /\ UNCHANGED << target, inferior, breakpoints, procs, session, panic_at, shadow,
                    terminal, last, probe >>

PatchNext ==
    \/ \E addr \in PatchAddrs : PatchSet(addr)
    \/ PatchClear
    \/ \E addr \in PatchAddrs, val \in PatchVals : PatchWrite(addr, val)

SpecPatch == PatchInit /\ [][PatchNext]_vars


(***************************************************************************)
(* The wait specification: Inferior::wait on a live inferior, over every   *)
(* kind of answer waitpid can give and sample signals, exit codes, event   *)
(* codes and instruction pointers.                                         *)
(*   probe.phase  "init" or "done" (wait has returned or panicked)         *)
(*   probe.ws     waitpid's answer, probe.rip what getregs would read      *)
(*   probe.res    what wait made of it                                     *)
(***************************************************************************)
WaitSignals == {"SIGTRAP", "SIGKILL", "SIGSEGV", "SIGINT", "SIGSTOP", "SIGILL"}

WaitCodes == {0, 1, 2, 255}

\* PTRACE_EVENT_FORK, PTRACE_EVENT_EXEC, PTRACE_EVENT_EXIT
WaitEvents == {1, 4, 6}

WaitRips == {Layout.entry, Layout.entry + 1, Layout.loop_head, Layout.size}

WaitOfKind(k) ==
    CASE k = "Exited" -> {WaitStatus(k, NoneVal, c) : c \in WaitCodes}
      [] k \in {"Signaled", "Stopped"} -> {WaitStatus(k, s, 0) : s \in WaitSignals}
      [] k = "PtraceEvent" ->
             {WaitStatus(k, s, e) : s \in WaitSignals, e \in WaitEvents}
      [] OTHER -> {WaitStatus(k, NoneVal, 0)}

WaitInputs == UNION {WaitOfKind(k) : k \in WaitKinds}

\* waitpid: the child is gone after Exited and Signaled and alive after
\* every other answer
ChildAlive(ws) == ws.kind \notin {"Exited", "Signaled"}

WaitInit ==
    /\ target = "loop"
    /\ inferior = NoInferior
    /\ breakpoints = << >>
    /\ procs = << >>
    /\ session = "off"
    /\ panic_at = 0
    /\ shadow = NoShadow
    /\ terminal = {}
    /\ last = NoLast
    /\ patch = NoPatch
    /\ \E w \in WaitInputs, r \in WaitRips :
           probe = [phase |-> "init", ws |-> w, rip |-> r, res |-> NoCall]

WaitDecode ==
    /\ probe.phase = "init"
    /\ probe' = [probe EXCEPT !.phase = "done", !.res = wait(probe.ws, probe.rip)]
    /\ UNCHANGED << target, inferior, breakpoints, procs, session, panic_at, shadow,
                    terminal, last, patch >>

WaitNext == WaitDecode

SpecWait == WaitInit /\ [][WaitNext]_vars


(***************************************************************************)
(* The unwind specification: Inferior::print_backtrace on a stopped        *)
(* inferior, over two families of stacks.                                  *)
(*  - Call chains: the instruction pointers of 1..MaxFrames nested frames, *)
(*    innermost first, every one with a function and a line and only the   *)
(*    last in main, laid out by the frame-pointer convention: the word at  *)
(*    a frame's base holds the caller's frame base and the word above it   *)
(*    the return address into the caller.                                  *)
(*  - Arbitrary contents: every assignment of sample values (code          *)
(*    addresses and stack addresses) to the words of StackBase, with       *)
(*    sample registers.                                                    *)
(*   probe.phase  "init" or "done" (print_backtrace has ended)             *)
(*   probe.rip, probe.stack   the registers and the stack words            *)
(*   probe.chain  the call chain the stack was laid out from, or << >>     *)
(*   probe.bt     what print_backtrace did                                 *)
(***************************************************************************)
CodeAddrs == 0..(Layout.size - 1)

Resolvable(addr) ==
    get_function_from_addr(addr) # NoneVal /\ get_line_from_addr(addr) >= 0

MainIps == {a \in CodeAddrs : Resolvable(a) /\ get_function_from_addr(a) = "main"}

CalleeIps == {a \in CodeAddrs : Resolvable(a) /\ get_function_from_addr(a) # "main"}

RECURSIVE ChainsOfDepth(_)
ChainsOfDepth(k) ==
    IF k = 1 THEN {<< a >> : a \in MainIps}
    ELSE {<< a >> \o c : a \in CalleeIps, c \in ChainsOfDepth(k - 1)}

Chains == UNION {ChainsOfDepth(k) : k \in 1..MaxFrames}

StackLow == 32

FrameBase(i) == StackLow + 2 * WordSize * (i - 1)

\* the frame of depth i of a chain of k: main's own frame holds a null
\* caller frame and a return address outside the debug information
FrameWord(chain, a) ==
    LET i == ((a - StackLow) \div (2 * WordSize)) + 1
        k == Len(chain)
    IN  IF a = FrameBase(i)
        THEN (IF i < k THEN FrameBase(i + 1) ELSE 0)
        ELSE (IF i < k THEN chain[i + 1] ELSE Layout.size)

ChainStack(chain) ==
    [rbp |-> FrameBase(1),
     mem |-> [a \in {StackLow + WordSize * j : j \in 0..(2 * Len(chain) - 1)}
                  |-> FrameWord(chain, a)]]

\* sample words: addresses in main, in the callee, without a line, outside
\* the debug information, and two stack addresses
StackVals == {2, 7, 10, 12, 32, 48}

UnwindRips == {2, 7, 10, 12}

UnwindRbps == {32, 48, 128}

UnwindInit ==
    /\ target = "loop"
    /\ inferior = NoInferior
    /\ breakpoints = << >>
    /\ procs = << >>
    /\ session = "off"
    /\ panic_at = 0
    /\ shadow = NoShadow
    /\ terminal = {}
    /\ last = NoLast
    /\ patch = NoPatch
    /\ \/ \E c \in Chains :
              probe = [phase |-> "init", rip |-> c[1], stack |-> ChainStack(c),
                       chain |-> c, bt |-> "NoCall"]
       \/ \E r \in UnwindRips, b \in UnwindRbps, m \in [StackBase -> StackVals] :
              probe = [phase |-> "init", rip |-> r, stack |-> [rbp |-> b, mem |-> m],
                       chain |-> << >>, bt |-> "NoCall"]

Unwind ==
    /\ probe.phase = "init"
    /\ probe' = [probe EXCEPT
                    !.phase = "done",
                    !.bt = print_backtrace([st |-> "stopped", rip |-> probe.rip],
                                           probe.stack)]
    /\ UNCHANGED << target, inferior, breakpoints, procs, session, panic_at, shadow,
                    terminal, last, patch >>

UnwindNext == Unwind

SpecUnwind == UnwindInit /\ [][UnwindNext]_vars


(***************************************************************************)
(* Properties.                                                             *)
(***************************************************************************)
HeldProc == procs[inferior]

OrigByte(addr) == Code(target)[addr + 1]

\* C1: breakpoint re-arming.  When a Continue issued at a stop on the
\* breakpoint at a stops on that breakpoint again, the byte at a is still
\* the trap byte and this continue and the one before it both returned
\* Stopped(SIGTRAP, a).
C1_RearmedBreakpointReportsItsAddress ==
    (/\ Held
     /\ last.cmd = "Cont"
     /\ last.pre_bp >= 0
     /\ HeldProc.st = "stopped"
     /\ HeldProc.trap_at = last.pre_bp)
    => /\ ByteAt(HeldProc.mem, last.pre_bp) = TrapByte
       /\ last.cont = Stopped("SIGTRAP", last.pre_bp)
       /\ last.prev_cont = Stopped("SIGTRAP", last.pre_bp)

\* C2: instruction-pointer correction.  Whenever the cont of Run or of
\* Continue returns Stopped with SIGTRAP because the child executed the
\* trap byte of the breakpoint at a, the Status carries a.
C2_StoppedAtBreakpointCarriesItsAddress ==
    (/\ Held
     /\ last.cont.kind = "Stopped"
     /\ last.cont.sig = "SIGTRAP"
     /\ HeldProc.trap_at >= 0)
    => last.cont.val = HeldProc.trap_at

\* C3: step-over in continue.  A Continue on an inferior stopped at the
\* installed breakpoint at a restores the original byte, resumes one
\* instruction, rewrites the trap byte and resumes, in this order, and the
\* first instruction the child executes is the original one at a.
C3_ContinueStepsOverTheBreakpoint ==
    (/\ last.cmd = "Cont"
     /\ last.pre_bp >= 0
     /\ last.cont.kind # "NoCall")
    => /\ last.ops = << "poke_original", "step", "poke_trap", "cont" >>
       /\ last.first = [addr |-> last.pre_bp, op |-> OrigByte(last.pre_bp)]

\* C4: breakpoint round trip.  set_breakpoint(a) followed by
\* clear_breakpoint(a) leaves the aligned word containing a as it was
\* before the two calls, for every mapped a and every sample memory.
C4_SetThenClearRestoresTheWord ==
    patch.phase = "cleared"
    => /\ patch.ok
       /\ patch.mem[align_addr_to_word(patch.addr)]
            = patch.mem0[align_addr_to_word(patch.addr)]

C4_Witness ==
    /\ patch.phase = "cleared"
    /\ patch.addr % WordSize = 5
    /\ patch.mem0[align_addr_to_word(patch.addr)][5] \notin {TrapByte, 0, 255}
    /\ patch.byte = patch.mem0[align_addr_to_word(patch.addr)][5]

\* C5: shadow invariant.  The byte set_breakpoint returned for an installed
\* address is the byte the target's code has there, never the trap byte
\* read back from patched memory.
C5_ShadowIsTheOriginalByte ==
    \A a \in DOMAIN shadow : shadow[a] = OrigByte(a) /\ shadow[a] # TrapByte

\* C6: terminal finality.  A continue or set_breakpoint on an inferior that
\* has reported Exited or Signaled returns Err.
C6_TerminalInferiorFailsEveryCall ==
    last.on_terminal
    => /\ last.cont.kind \in {"Err", "NoCall"}
       /\ last.setbp \in {"Err", "NoCall"}

C6_Witness ==
    /\ last.on_terminal
    /\ last.cmd = "Cont"
    /\ last.cont = Err
    /\ session = "running"

C8_HeldInferiorHasEveryBreakpointPatched ==
    (session = "running" /\ Held)
    => \A i \in 1..Len(breakpoints) :
           /\ Mapped(HeldProc.mem, align_addr_to_word(breakpoints[i]))
           /\ ByteAt(HeldProc.mem, breakpoints[i]) = TrapByte

\* C9: spawn failure is a returned value.  Inferior::new does not panic
\* when the child cannot be created, and returns an inferior only when the
\* first wait event is a stop with SIGTRAP.
C9_SpawnFailureIsReturned ==
    /\ ~(last.new = "Panic" /\ panic_at = 50)
    /\ last.new = "Some" => last.first_status = Stopped("SIGTRAP", Layout.entry)

\* C10: recoverable errors never end the session.  The session never
\* panics on a spawn failure (line 50), a failed breakpoint patch (59,
\* 127), a failed read during backtrace (118) or a failed continue (212).
C10_RecoverableErrorsKeepTheSession ==
    session = "panicked" => panic_at \notin {50, 59, 118, 127, 212}

\* The closed Status taxonomy
Taxonomy == {"Stopped", "Exited", "Signaled"}

\* C11: status totality.  A wait on a live inferior yields the Status value
\* of the event's own kind when the event is inside the taxonomy (a stop,
\* an exit, a termination by signal), and panics, yielding none of the
\* three values, when the event is outside it.
C11_WaitIsTotalAndFailsLoudlyOutside ==
    probe.phase = "done"
    => IF probe.ws.kind \in Taxonomy
       THEN probe.res.kind = probe.ws.kind
       ELSE probe.res = Panic

\* C12: Signaled means terminated.  wait returns Signaled(s) only for a
\* child that terminated by s; after an event that leaves the child alive
\* the result is never Signaled.
C12_SignaledOnlyForATerminatedChild ==
    (probe.phase = "done" /\ probe.res.kind = "Signaled")
    => /\ ~ChildAlive(probe.ws)
       /\ probe.ws = WaitStatus("Signaled", probe.res.sig, 0)

\* the (function, line) pairs of a call chain, innermost first
ChainPairs(chain) ==
    [i \in 1..Len(chain)
        |-> << get_function_from_addr(chain[i]), get_line_from_addr(chain[i]) >>]

\* C13: unwind depth and order.  For an inferior stopped k frames deep,
\* the outermost frame in main and every frame address resolvable, the
\* unwind succeeds with exactly the k (function, line) pairs of the chain,
\* innermost first, the last one naming main; stopped inside main it yields
\* one pair and reads no stack word.
C13_UnwindYieldsTheCallChain ==
    (probe.phase = "done" /\ probe.chain # << >>)
    => /\ probe.bt.res = "Ok"
       /\ probe.bt.frames = ChainPairs(probe.chain)
       /\ Len(probe.bt.frames) = Len(probe.chain)
       /\ probe.bt.frames[Len(probe.chain)][1] = "main"
       /\ Len(probe.chain) = 1 => probe.bt.reads = 0

C13_Witness ==
    /\ probe.phase = "done"
    /\ Len(probe.chain) = MaxFrames
    /\ Len(probe.bt.frames) = MaxFrames
    /\ probe.bt.frames[1][1] # "main"
    /\ probe.bt.reads > 0

\* C14: unwind is finite.  For every register snapshot and every stack
\* content, print_backtrace ends: its loop never meets the same
\* (instruction pointer, frame base) pair twice.
C14_UnwindTerminates ==
    probe.phase = "done" => probe.bt.res # "Hang"

\* what a command did to processes: nothing
NoProcessOperation ==
    /\ last'.ops = << >>
    /\ last'.new = "NoCall"
    /\ last'.kill = NoCall
    /\ last'.cont = NoCall
    /\ last'.bt = "NoCall"
    /\ last'.setbp = "NoCall"
    /\ procs' = procs

\* C15: no active inferior is a no-op.  With no inferior held, Continue and
\* Backtrace operate on no process, keep the session running and change
\* nothing of its state; Break, once its address is parsed, operates on no
\* process, keeps the session running and changes nothing but the
\* breakpoint vector, which gains the address at its end.
C15_NoInferiorIsANoOp ==
    [][(/\ session = "running"
        /\ inferior = NoInferior
        /\ last'.cmd \in {"Cont", "Backtrace", "Break"}
        /\ panic_at' # 122)
       => /\ NoProcessOperation
          /\ session' = "running"
          /\ UNCHANGED << target, inferior, shadow, terminal, panic_at >>
          /\ IF last'.cmd = "Break"
             THEN /\ Len(breakpoints') = Len(breakpoints) + 1
                  /\ SubSeq(breakpoints', 1, Len(breakpoints)) = breakpoints
             ELSE breakpoints' = breakpoints]_vars

C15_Witness ==
    /\ session = "running"
    /\ inferior = NoInferior
    /\ last.cmd = "Break"
    /\ last.setbp = "NoCall"
    /\ Len(procs) >= 1
    /\ Len(breakpoints) = MaxBreaks

C17_WriteByteTouchesOneByte ==
    patch.phase = "written"
    => LET index == patch.addr % 8
           word_addr == patch.addr - index
       IN  /\ DOMAIN patch.mem = DOMAIN patch.mem0
           /\ IF word_addr \in DOMAIN patch.mem0
              THEN /\ patch.ok
                   /\ patch.byte = patch.mem0[word_addr][index]
                   /\ patch.mem[word_addr][index] = patch.val
                   /\ \A i \in (0..7) \ {index} :
                          patch.mem[word_addr][i] = patch.mem0[word_addr][i]
                   /\ \A a \in DOMAIN patch.mem0 \ {word_addr} :
                          patch.mem[a] = patch.mem0[a]
              ELSE ~patch.ok /\ patch.mem = patch.mem0

C17_Witness ==
    /\ patch.phase = "written"
    /\ patch.ok
    /\ patch.addr % 8 = 5
    /\ patch.addr > 8
    /\ patch.val = 128
    /\ patch.byte \notin {0, 128, 255}
    /\ patch.mem # patch.mem0

\* C18: the session holds an inferior only while it is alive.  In a
\* running session the inferior field is set exactly when the latest
\* status of the newest inferior was Stopped: a held inferior has reported
\* no terminal status, and an inferior that has reported none is held.
C18_HeldIffLastStatusStopped ==
    session = "running"
    => /\ Held => inferior \notin terminal
       /\ \A p \in 1..Len(procs) : p \notin terminal => inferior = p

====
